---- MODULE Spec2Model ----
(***************************************************************************)
(* Subscription payment coordinator of favor-dao-backend:                  *)
(* service.SubDao and service.UpdateSubscribeDAO                           *)
(* (src/internal/service/dao.go), together with the collaborators they     *)
(* call: the order store (ds / model.DaoSubscribe), the payment initiator  *)
(* (point.Pay), the notification bus (pubsub), the identity lookups and    *)
(* the user notifier (notifyGateway).                                      *)
(***************************************************************************)
EXTENDS Integers, Sequences, FiniteSets, TLC

\* ------------------------------------------------------------------ bounds
NumProcs == 2
NumAddresses == 2

Procs == 1..NumProcs
Addresses == 1..NumAddresses

\* ------------------------------------------------------------- data model
DaoSubscribeCreated == "Created"
DaoSubscribeSubmit == "Submitted"
DaoSubscribeSuccess == "Success"
DaoSubscribeFailed == "Failed"
DaoSubscribeCancelled == "Cancelled"

Terminal == {DaoSubscribeSuccess, DaoSubscribeFailed, DaoSubscribeCancelled}
NonTerminal == {DaoSubscribeCreated, DaoSubscribeSubmit}

\* zero values of the Go locals: txID "" is 0, status zero value is "", a nil
\* *psub.Notify is NoNotify, an order id "" is 0
NoTx == 0
NoStatus == ""
NoOrder == 0
NoNotify == [key |-> 0, reg |-> FALSE, ch |-> NoStatus]

\* the single community the calls subscribe to, and its owner's address
TheDao == 1
DaoOwner == 9
NoAddress == 0

\* the configured prices a community is given, in milli-units
Prices == {2500, 10000}

VARIABLES
    orders,      \* Order Store: sequence of orders, order id = index
    payLog,      \* Payment Initiator: one entry per point.Pay invocation, tx id = index
    final,       \* processor: the terminal state it reports for each order's transaction
    rep,         \* the Completion Reporter call in flight
    address,     \* per call: the subscriber address argument (NoAddress before the call)
    pc,          \* per call: position in SubDao
    oid,         \* per call: local oid
    notify,      \* per call: local notify (the bus listener it registered)
    txID,        \* per call: named result txID
    status,      \* per call: named result status
    err,         \* per call: named result err
    toAddress,   \* per call: local toAddress
    price,       \* per call: local price
    amount,      \* per call: Amount of the PayRequest it hands to point.Pay
    d,           \* per call: Address of the dao ds.GetDao returned (line 507)
    aUser,       \* per call: the pointer a (line 508): "" unset, "ptr", "nil"
    notifierDown, \* environment: the notifier is made to fail every Notify call
    busFails,    \* environment: pubsub.NewSubscribe may fail
    storeFails,  \* environment: the lookups after the receive may fail
    daoPrice,    \* environment: the community's configured price (dao.Price), milli-units
    path,        \* history: branch taken after the order lookup
    got,         \* history: status received from the bus
    found,       \* history: order id the lookup returned
    nNotify,     \* history: notifyGateway.Notify calls made by the call
    idFail,      \* history: the store failed a dao / identity lookup of the call
    regs         \* history: bus registrations made by the call

vars == <<orders, payLog, final, rep, address, pc, oid, notify, txID,
          status, err, toAddress, price, amount, d, aUser, notifierDown,
          busFails, storeFails, daoPrice, path, got, found, nNotify, idFail, regs>>

storeVars == <<orders, payLog, final, rep>>
modeVars == <<notifierDown, busFails, storeFails, daoPrice>>
envVars == <<address, modeVars>>
localVars == <<price, amount, d, aUser>>
histVars == <<path, got, found, nNotify, idFail, regs>>

OrderIds == 1..Len(orders)

TypeOK ==
    /\ \A o \in OrderIds : orders[o].status \in Terminal \cup NonTerminal
    /\ Len(final) = Len(orders)
    /\ pc \in [Procs -> {"idle", "create", "pay", "attach", "resub", "wait",
                         "getdao", "geta", "getuser", "notify1", "notify2",
                         "gettouser", "getfromuser", "notify3", "done",
                         "panicked"}]

\* ------------------------------------------------------------ Order Store
\* sub.FindOne(ctx, db, {"address": address, "dao_id": daoID}): the orders the
\* filter matches, whatever their status
FindOne(addr, dao) ==
    {o \in OrderIds : orders[o].address = addr /\ orders[o].dao = dao}

\* the store's uniqueness constraint: at most one non-terminal order per
\* (subscriber, community) pair
CanInsert(addr, dao) ==
    \A o \in FindOne(addr, dao) : orders[o].status \notin NonTerminal

\* the order ds.SubscribeDAO persists before it invokes the callback
NewOrder(addr, dao) ==
    [address |-> addr, dao |-> dao, status |-> DaoSubscribeCreated, txID |-> NoTx]

\* ds.UpdateSubscribeDAOTxID(oid, txID): persist Submitted + transaction id
StoreAttachTxID(ords, o, tx) ==
    [ords EXCEPT ![o].status = DaoSubscribeSubmit, ![o].txID = tx]

\* ds.UpdateSubscribeDAO(orderID, txID, status): persist both onto the order
StoreUpdate(ords, o, tx, st) ==
    [ords EXCEPT ![o].status = st, ![o].txID = tx]

\* ------------------------------------------------------- Payment Initiator
\* the transaction id point.Pay issued for an order (NoTx when none)
RECURSIVE TxIn(_, _, _)
TxIn(log, o, i) ==
    IF i = 0 THEN NoTx
    ELSE IF log[i].oid = o /\ log[i].ok THEN i
    ELSE TxIn(log, o, i - 1)

TxOf(o) == TxIn(payLog, o, Len(payLog))

\* a decimal number: whole units and thousandths
Dec(units, milli) == [units |-> units, milli |-> milli]

\* "Amount: dao.Price": the amount handed to point.Pay for a community whose
\* configured price is the numeral of daoP
PayAmount(daoP) == Dec(daoP, 0)

\* "price = convert.StrTo(dao.Price).MustFloat64() / 1000"
CallbackPrice(daoP) == Dec(daoP \div 1000, daoP % 1000)

\* number of point.Pay invocations made for the orders of a subscriber
PayCalls(addr) ==
    Cardinality({i \in 1..Len(payLog) : orders[payLog[i].oid].address = addr})

\* --------------------------------------------------------- Notification Bus
\* pubsub.NewSubscribe(key): a registered listener with an empty channel
NewSubscribe(key) == [key |-> key, reg |-> TRUE, ch |-> NoStatus]

\* notify.Cancel(): deregisters the listener; calling it again changes nothing
Cancel(n) == [n EXCEPT !.reg = FALSE]

\* publish: deliver val to every listener registered under key whose
\* single-value channel is still empty
Publish(nt, key, val) ==
    [p \in Procs |->
        IF nt[p].reg /\ nt[p].key = key /\ nt[p].ch = NoStatus
        THEN [nt[p] EXCEPT !.ch = val]
        ELSE nt[p]]

\* pubsub.NewSubscribe can fail only when the bus is failing
RegisterOutcomes == IF busFails THEN BOOLEAN ELSE {TRUE}

\* what pubsub.NewSubscribe(key) returns: the listener, or nil with an error
TrySubscribe(key, ok) == IF ok THEN NewSubscribe(key) ELSE NoNotify

Listeners(key) == {p \in Procs : notify[p].reg /\ notify[p].key = key}

\* ------------------------------------------------------------------ SubDao
\* variant of Deferred: the subscription is left registered
DeferredKeeps(n) == n

\* the deferred function: cancel the subscription if one was registered
Deferred(n) == IF n # NoNotify THEN Cancel(n) ELSE n

\* variants of ReturnsStored: only a Success order is returned as stored; every
\* order is returned as stored
ReturnsStoredOnSuccess(st) == st = DaoSubscribeSuccess

ReturnsStoredAlways(st) == TRUE

\* "if status != model.DaoSubscribeSubmit { return }": the found order's stored
\* values are returned as they are
ReturnsStored(st) == st # DaoSubscribeSubmit

\* variant of AttachTxID: the write is made with an empty transaction id
AttachTxIDEmpty(ords, o, tx, ok) == IF ok THEN StoreAttachTxID(ords, o, NoTx) ELSE ords

\* "e := ds.UpdateSubscribeDAOTxID(oid, txID)": the write the creating call makes
\* after the payment was initiated; a failure is logged only
AttachTxID(ords, o, tx, ok) == IF ok THEN StoreAttachTxID(ords, o, tx) ELSE ords

\* variant of CtxDoneStore: the cancelled call marks its order Cancelled
CtxDoneStoreCancels(ords, o) == [ords EXCEPT ![o].status = DaoSubscribeCancelled]

\* "case <-ctx.Done(): err = ctx.Err()": the order store after the branch
CtxDoneStore(ords, o) == ords

\* variant of Received: the received value is dropped
ReceivedKept(old, val) == old

\* "case val := <-notify.Ch: status = val.(core.DaoSubscribeT)": the new value
\* of the named result status
Received(old, val) == val

\* ds.GetDao(dao): succeeds unless the store fails
DaoOutcomes == IF storeFails THEN BOOLEAN ELSE {TRUE}

\* ds.GetUserByAddress(a): no identity is stored under the empty address, the
\* lookup of any other address succeeds unless the store fails
LookupOutcomes(a) ==
    IF a = NoAddress THEN {FALSE} ELSE IF storeFails THEN BOOLEAN ELSE {TRUE}

\* "toUser, err := ds.GetUserByAddress(toAddress); if err != nil { return txID,
\* status, err }": the error returned when the lookup fails
ToUserErr(ok) == IF ok THEN "" ELSE "identity"

\* "err = notifyGateway.Notify(...); if err != nil { logrus.Errorf(...) }" assigns
\* a shadowing err: the named result is left as it was
AfterNotifyErr(e, ok) == e

InitCalls ==
    /\ orders = <<>>
    /\ payLog = <<>>
    /\ final = <<>>
    /\ rep = [pc |-> "idle", oid |-> NoOrder, status |-> NoStatus]
    /\ address = [p \in Procs |-> NoAddress]
    /\ pc = [p \in Procs |-> "idle"]
    /\ oid = [p \in Procs |-> NoOrder]
    /\ notify = [p \in Procs |-> NoNotify]
    /\ txID = [p \in Procs |-> NoTx]
    /\ status = [p \in Procs |-> NoStatus]
    /\ err = [p \in Procs |-> ""]
    /\ toAddress = [p \in Procs |-> NoAddress]
    /\ price = [p \in Procs |-> Dec(0, 0)]
    /\ amount = [p \in Procs |-> Dec(0, 0)]
    /\ d = [p \in Procs |-> NoAddress]
    /\ aUser = [p \in Procs |-> ""]
    /\ path = [p \in Procs |-> "none"]
    /\ got = [p \in Procs |-> NoStatus]
    /\ found = [p \in Procs |-> NoOrder]
    /\ nNotify = [p \in Procs |-> 0]
    /\ idFail = [p \in Procs |-> FALSE]
    /\ regs = [p \in Procs |-> 0]

\* Calls are numbered in the order they start and subscriber addresses in the
\* order they are first used: call p starts once call p - 1 has started, for a
\* subscriber seen before or for the next new one.
Started == {p \in Procs : pc[p] # "idle"}

Callable(p, a) ==
    /\ pc[p] = "idle"
    /\ p = 1 \/ (p - 1) \in Started
    /\ a \in Addresses
    /\ \A b \in 1..(a - 1) : \E q \in Started : address[q] = b

\* SubDao is called and sub.FindOne fails with an error other than
\* ErrNoDocuments: return it
FindOneError(p, a) ==
    /\ Callable(p, a)
    /\ address' = [address EXCEPT ![p] = a]
    /\ err' = [err EXCEPT ![p] = "lookup"]
    /\ path' = [path EXCEPT ![p] = "lookupErr"]
    /\ notify' = [notify EXCEPT ![p] = Deferred(notify[p])]
    /\ pc' = [pc EXCEPT ![p] = "done"]
    /\ UNCHANGED <<storeVars, modeVars, oid, txID, status, toAddress, localVars, got,
                   found, nNotify, idFail, regs>>

\* SubDao is called and sub.FindOne returns ErrNoDocuments: go on to create
\* the order
FindOneNone(p, a) ==
    /\ Callable(p, a)
    /\ address' = [address EXCEPT ![p] = a]
    /\ FindOne(a, TheDao) = {}
    /\ path' = [path EXCEPT ![p] = "create"]
    /\ pc' = [pc EXCEPT ![p] = "create"]
    /\ UNCHANGED <<storeVars, modeVars, oid, notify, txID, status, err, toAddress, localVars,
                   got, found, nNotify, idFail, regs>>

\* SubDao is called and sub.FindOne returns an order: take its txID and status,
\* return them unless the order is Submitted
FindOneFound(p, a) ==
    /\ Callable(p, a)
    /\ address' = [address EXCEPT ![p] = a]
    /\ \E o \in FindOne(a, TheDao) :
        /\ found' = [found EXCEPT ![p] = o]
        /\ txID' = [txID EXCEPT ![p] = orders[o].txID]
        /\ status' = [status EXCEPT ![p] = orders[o].status]
        /\ IF ReturnsStored(orders[o].status)
           THEN /\ path' = [path EXCEPT ![p] = "short"]
                /\ notify' = [notify EXCEPT ![p] = Deferred(notify[p])]
                /\ pc' = [pc EXCEPT ![p] = "done"]
                /\ oid' = oid
           ELSE /\ path' = [path EXCEPT ![p] = "resume"]
                /\ oid' = [oid EXCEPT ![p] = o]
                /\ pc' = [pc EXCEPT ![p] = "resub"]
                /\ notify' = notify
    /\ UNCHANGED <<storeVars, modeVars, err, toAddress, localVars, got, nNotify, idFail,
                   regs>>

\* "notify, _ = pubsub.NewSubscribe(oid)" on the resume path: the error is
\* dropped and the call goes on to the select
Resubscribe(p) ==
    /\ pc[p] = "resub"
    /\ \E ok \in RegisterOutcomes :
        /\ notify' = [notify EXCEPT ![p] = TrySubscribe(oid[p], ok)]
        /\ regs' = [regs EXCEPT ![p] = IF ok THEN @ + 1 ELSE @]
    /\ pc' = [pc EXCEPT ![p] = "wait"]
    /\ UNCHANGED <<storeVars, envVars, oid, txID, status, err, toAddress, localVars, path,
                   got, found, nNotify, idFail>>

\* variant of CallbackNotify: the callback has not registered when it pays
CallbackNotifyLate(orderID, ok) == NoNotify

\* "notify, err = pubsub.NewSubscribe(orderID)" in the callback, ahead of
\* point.Pay
CallbackNotify(orderID, ok) == TrySubscribe(orderID, ok)

\* ds.SubscribeDAO: the conditional insert of the order and the callback up to
\* the invocation of point.Pay (oid = orderID, register the bus subscription
\* under the new order id and return the error if that fails, toAddress =
\* dao.Address, price, the PayRequest built from the dao handed to the
\* callback). A rejected insert returns an error and the callback is not invoked.
SubscribeDAO(p) ==
    /\ pc[p] = "create"
    /\ IF CanInsert(address[p], TheDao)
       THEN \E ok \in RegisterOutcomes :
            LET n == CallbackNotify(Len(orders) + 1, ok) IN
            /\ orders' = Append(orders, NewOrder(address[p], TheDao))
            /\ final' = Append(final, NoStatus)
            /\ oid' = [oid EXCEPT ![p] = Len(orders) + 1]
            /\ IF ok
               THEN /\ notify' = [notify EXCEPT ![p] = n]
                    /\ regs' = [regs EXCEPT ![p] = @ + 1]
                    /\ toAddress' = [toAddress EXCEPT ![p] = DaoOwner]
                    /\ price' = [price EXCEPT ![p] = CallbackPrice(daoPrice)]
                    /\ amount' = [amount EXCEPT ![p] = PayAmount(daoPrice)]
                    /\ pc' = [pc EXCEPT ![p] = "pay"]
                    /\ UNCHANGED err
               ELSE /\ err' = [err EXCEPT ![p] = "subscribe"]
                    /\ notify' = [notify EXCEPT ![p] = Deferred(n)]
                    /\ pc' = [pc EXCEPT ![p] = "done"]
                    /\ UNCHANGED <<regs, toAddress, price, amount>>
       ELSE /\ err' = [err EXCEPT ![p] = "duplicate"]
            /\ notify' = [notify EXCEPT ![p] = Deferred(notify[p])]
            /\ pc' = [pc EXCEPT ![p] = "done"]
            /\ UNCHANGED <<orders, final, oid, regs, toAddress, price, amount>>
    /\ UNCHANGED <<payLog, rep, envVars, txID, status, d, aUser, path, got, found,
                   nNotify, idFail>>

\* variant of ReturnsCreateErr: the error of the creation is not looked at
ReturnsCreateErrNever(e) == FALSE

\* "err = ds.SubscribeDAO(...); if err != nil { return }"
ReturnsCreateErr(e) == e # ""

\* "txID, err = point.Pay(...); return err": point.Pay answers the request;
\* the callback and ds.SubscribeDAO return its error to SubDao
Pay(p) ==
    /\ pc[p] = "pay"
    /\ \E ok \in BOOLEAN :
        LET e == IF ok THEN "" ELSE "pay" IN
        /\ payLog' = Append(payLog, [oid |-> oid[p], ok |-> ok,
                                      amount |-> amount[p]])
        /\ txID' = [txID EXCEPT ![p] = IF ok THEN Len(payLog) + 1 ELSE NoTx]
        /\ err' = [err EXCEPT ![p] = e]
        /\ IF ReturnsCreateErr(e)
           THEN /\ notify' = [notify EXCEPT ![p] = Deferred(notify[p])]
                /\ pc' = [pc EXCEPT ![p] = "done"]
           ELSE /\ pc' = [pc EXCEPT ![p] = "attach"]
                /\ UNCHANGED notify
    /\ UNCHANGED <<orders, final, rep, envVars, oid, status, toAddress, localVars, histVars>>

\* "e := ds.UpdateSubscribeDAOTxID(oid, txID)", then on to the wait
UpdateSubscribeDAOTxID(p) ==
    /\ pc[p] = "attach"
    /\ \E ok \in BOOLEAN :
        orders' = AttachTxID(orders, oid[p], txID[p], ok)
    /\ pc' = [pc EXCEPT ![p] = "wait"]
    /\ UNCHANGED <<payLog, final, rep, envVars, oid, notify, txID, status, err,
                   toAddress, localVars, histVars>>

\* select with a nil notify: evaluating the operand notify.Ch on entering the
\* select dereferences nil and panics; the deferred function has nothing to
\* cancel
WaitNil(p) ==
    /\ pc[p] = "wait"
    /\ notify[p] = NoNotify
    /\ pc' = [pc EXCEPT ![p] = "panicked"]
    /\ UNCHANGED <<storeVars, envVars, oid, notify, txID, status, err, toAddress, localVars,
                   histVars>>

\* select, "case <-ctx.Done()": the caller's cancellation signal has fired;
\* err = ctx.Err(), err is not nil, so return. The steps before the wait do not
\* look at the signal, so whenever it fired it is first seen here.
WaitCancelled(p) ==
    /\ pc[p] = "wait"
    /\ notify[p] # NoNotify
    /\ err' = [err EXCEPT ![p] = "cancelled"]
    /\ orders' = CtxDoneStore(orders, oid[p])
    /\ notify' = [notify EXCEPT ![p] = Deferred(notify[p])]
    /\ pc' = [pc EXCEPT ![p] = "done"]
    /\ UNCHANGED <<payLog, final, rep, envVars, oid, txID, status, toAddress, localVars,
                   histVars>>

\* notifyGateway.Notify: fails when the notifier is down, else it may succeed
\* or fail
NotifyOutcomes == IF notifierDown THEN {FALSE} ELSE BOOLEAN

\* what the steps after the receive leave alone
keptAfterReceive ==
    <<storeVars, envVars, oid, txID, toAddress, price, amount, path, found, regs>>

\* the call goes on to its next collaborator call
GoesTo(p, where) ==
    /\ pc' = [pc EXCEPT ![p] = where]
    /\ UNCHANGED notify

\* the call returns or panics: the deferred function runs
Ends(p, where) ==
    /\ pc' = [pc EXCEPT ![p] = where]
    /\ notify' = [notify EXCEPT ![p] = Deferred(notify[p])]

\* select, "case val := <-notify.Ch": the receive takes the value out of the
\* channel, status = val, and the call goes on to ds.GetDao
WaitDelivered(p) ==
    /\ pc[p] = "wait"
    /\ notify[p].ch # NoStatus
    /\ status' = [status EXCEPT ![p] = Received(status[p], notify[p].ch)]
    /\ got' = [got EXCEPT ![p] = notify[p].ch]
    /\ notify' = [notify EXCEPT ![p].ch = NoStatus]
    /\ pc' = [pc EXCEPT ![p] = "getdao"]
    /\ UNCHANGED <<keptAfterReceive, err, nNotify, idFail, d, aUser>>

\* "d, err := ds.GetDao(dao)" returns: the dao, or an error with a nil or an
\* empty dao; "d.Address" of a nil d panics
LookupDao(p) ==
    /\ pc[p] = "getdao"
    /\ \E ok \in DaoOutcomes, nilp \in BOOLEAN :
        /\ idFail' = [idFail EXCEPT ![p] = @ \/ ~ok]
        /\ IF ~ok /\ nilp
           THEN Ends(p, "panicked") /\ UNCHANGED d
           ELSE /\ d' = [d EXCEPT ![p] = IF ok THEN DaoOwner ELSE NoAddress]
                /\ GoesTo(p, "geta")
    /\ UNCHANGED <<keptAfterReceive, status, got, err, nNotify, aUser>>

\* "a, err := ds.GetUserByAddress(d.Address)" returns
LookupOwner(p) ==
    /\ pc[p] = "geta"
    /\ \E ok \in LookupOutcomes(d[p]), nilp \in BOOLEAN :
        /\ aUser' = [aUser EXCEPT ![p] = IF ~ok /\ nilp THEN "nil" ELSE "ptr"]
        /\ idFail' = [idFail EXCEPT ![p] = @ \/ (~ok /\ d[p] # NoAddress)]
    /\ GoesTo(p, "getuser")
    /\ UNCHANGED <<keptAfterReceive, status, got, err, nNotify, d>>

\* "user, err := ds.GetUserByAddress(address)" returns; "user.ID" of a nil user
\* panics; else the first notifyGateway.Notify is called
LookupUser(p) ==
    /\ pc[p] = "getuser"
    /\ \E ok \in LookupOutcomes(address[p]), nilp \in BOOLEAN :
        /\ idFail' = [idFail EXCEPT ![p] = @ \/ ~ok]
        /\ IF ~ok /\ nilp THEN Ends(p, "panicked") ELSE GoesTo(p, "notify1")
    /\ UNCHANGED <<keptAfterReceive, status, got, err, nNotify, d, aUser>>

\* the first notifyGateway.Notify (to the subscriber) returns, its error is
\* logged; "a.ID" of a nil a panics; else the second Notify is called
NotifySubscriber(p) ==
    /\ pc[p] = "notify1"
    /\ \E nOk \in NotifyOutcomes :
        err' = [err EXCEPT ![p] = AfterNotifyErr(err[p], nOk)]
    /\ nNotify' = [nNotify EXCEPT ![p] = @ + 1]
    /\ IF aUser[p] = "nil" THEN Ends(p, "panicked") ELSE GoesTo(p, "notify2")
    /\ UNCHANGED <<keptAfterReceive, status, got, idFail, d, aUser>>

\* the second notifyGateway.Notify (to the community owner) returns, its error
\* is logged; then "if err == nil": the toUser lookup is called, or the call
\* returns
NotifyOwner(p) ==
    /\ pc[p] = "notify2"
    /\ \E nOk \in NotifyOutcomes :
        LET e == AfterNotifyErr(err[p], nOk) IN
        /\ err' = [err EXCEPT ![p] = e]
        /\ IF e = "" THEN GoesTo(p, "gettouser") ELSE Ends(p, "done")
    /\ nNotify' = [nNotify EXCEPT ![p] = @ + 1]
    /\ UNCHANGED <<keptAfterReceive, status, got, idFail, d, aUser>>

\* "toUser, err := ds.GetUserByAddress(toAddress)" returns; "if err != nil {
\* return txID, status, err }"
LookupToUser(p) ==
    /\ pc[p] = "gettouser"
    /\ \E ok \in LookupOutcomes(toAddress[p]) :
        /\ idFail' = [idFail EXCEPT ![p] = @ \/ (~ok /\ toAddress[p] # NoAddress)]
        /\ err' = [err EXCEPT ![p] = ToUserErr(ok)]
        /\ IF ok THEN GoesTo(p, "getfromuser") ELSE Ends(p, "done")
    /\ UNCHANGED <<keptAfterReceive, status, got, nNotify, d, aUser>>

\* "fromUser, err := ds.GetUserByAddress(address)" returns;
\* "fromUser.Nickname" of a nil fromUser panics; else the third Notify is called
LookupFromUser(p) ==
    /\ pc[p] = "getfromuser"
    /\ \E ok \in LookupOutcomes(address[p]), nilp \in BOOLEAN :
        /\ idFail' = [idFail EXCEPT ![p] = @ \/ ~ok]
        /\ IF ~ok /\ nilp THEN Ends(p, "panicked") ELSE GoesTo(p, "notify3")
    /\ UNCHANGED <<keptAfterReceive, status, got, err, nNotify, d, aUser>>

\* the third notifyGateway.Notify returns, its error is logged; return
NotifySubscription(p) ==
    /\ pc[p] = "notify3"
    /\ \E nOk \in NotifyOutcomes :
        err' = [err EXCEPT ![p] = AfterNotifyErr(err[p], nOk)]
    /\ nNotify' = [nNotify EXCEPT ![p] = @ + 1]
    /\ Ends(p, "done")
    /\ UNCHANGED <<keptAfterReceive, status, got, idFail, d, aUser>>

\* ------------------------------------------------------------------ UpdateDao
\* UpdateDao(userAddress, param) by the owner with a price: "dao.Price =
\* param.Price", persisted by ds.UpdateDao
UpdateDao(pr) ==
    /\ pr \in Prices
    /\ daoPrice' = pr
    /\ UNCHANGED <<storeVars, address, notifierDown, busFails, storeFails, pc, oid,
                   notify,
                   txID, status, err, toAddress, localVars, histVars>>

\* ------------------------------------------------------ Completion Reporter
\* the orders whose payment the processor knows
Paid == {o \in OrderIds : TxOf(o) # NoTx}

\* UpdateSubscribeDAO(orderID, txID, status)
UpdateSubscribeDAO(ords, orderID, tx, st) == StoreUpdate(ords, orderID, tx, st)

\* the processor's callback for a paid order: it reports the transaction's one
\* terminal state (a repeated callback repeats it). First the write ...
ReportWrite ==
    /\ rep.pc = "idle"
    /\ \E o \in Paid, st \in Terminal :
        /\ final[o] \in {NoStatus, st}
        /\ final' = [final EXCEPT ![o] = st]
        /\ orders' = UpdateSubscribeDAO(orders, o, TxOf(o), st)
        /\ rep' = [pc |-> "publish", oid |-> o, status |-> st]
    /\ UNCHANGED <<payLog, envVars, pc, oid, notify, txID, status, err,
                   toAddress, localVars, histVars>>

\* ... then the publish under the order id
ReportPublish ==
    /\ rep.pc = "publish"
    /\ notify' = Publish(notify, rep.oid, rep.status)
    /\ rep' = [pc |-> "idle", oid |-> NoOrder, status |-> NoStatus]
    /\ UNCHANGED <<orders, payLog, final, envVars, pc, oid, txID, status, err,
                   toAddress, localVars, histVars>>

Next ==
    \/ \E p \in Procs, a \in Addresses : FindOneError(p, a)
    \/ \E p \in Procs, a \in Addresses : FindOneNone(p, a)
    \/ \E p \in Procs, a \in Addresses : FindOneFound(p, a)
    \/ \E p \in Procs : Resubscribe(p)
    \/ \E p \in Procs : SubscribeDAO(p)
    \/ \E p \in Procs : Pay(p)
    \/ \E p \in Procs : UpdateSubscribeDAOTxID(p)
    \/ \E p \in Procs : WaitCancelled(p)
    \/ \E p \in Procs : WaitDelivered(p)
    \/ \E p \in Procs : LookupDao(p)
    \/ \E p \in Procs : LookupOwner(p)
    \/ \E p \in Procs : LookupUser(p)
    \/ \E p \in Procs : NotifySubscriber(p)
    \/ \E p \in Procs : NotifyOwner(p)
    \/ \E p \in Procs : LookupToUser(p)
    \/ \E p \in Procs : LookupFromUser(p)
    \/ \E p \in Procs : NotifySubscription(p)
    \/ ReportWrite
    \/ ReportPublish

\* the collaborators are not forced to fail, the store answers the lookups made
\* after the receive, and the community keeps the default price of CreateDao
Init ==
    /\ InitCalls
    /\ notifierDown = FALSE /\ busFails = FALSE /\ storeFails = FALSE
    /\ daoPrice = 10000

Spec == Init /\ [][Next]_vars

\* the User Notifier is made to always fail
InitNotifierDown ==
    /\ InitCalls
    /\ notifierDown = TRUE /\ busFails = FALSE /\ storeFails = FALSE
    /\ daoPrice = 10000

SpecNotifierDown == InitNotifierDown /\ [][Next]_vars

\* the community is created with any of the configured prices and its owner
\* may change the price with UpdateDao
InitPrices ==
    /\ InitCalls
    /\ notifierDown = FALSE /\ busFails = FALSE /\ storeFails = FALSE
    /\ daoPrice \in Prices

NextPrices ==
    \/ Next
    \/ \E pr \in Prices : UpdateDao(pr)

SpecPrices == InitPrices /\ [][NextPrices]_vars

\* Scheduling: a call that can take its next step takes it (each call runs in
\* its own goroutine and the collaborators it calls answer) and the Completion
\* Reporter publishes what it has written.
\* Nothing makes a caller start a call or cancel one, nor the processor report.
Fairness ==
    /\ \A p \in Procs :
        /\ WF_vars(Resubscribe(p))
        /\ WF_vars(SubscribeDAO(p))
        /\ WF_vars(Pay(p))
        /\ WF_vars(UpdateSubscribeDAOTxID(p))
        /\ WF_vars(WaitDelivered(p))
        /\ WF_vars(LookupDao(p))
        /\ WF_vars(LookupOwner(p))
        /\ WF_vars(LookupUser(p))
        /\ WF_vars(NotifySubscriber(p))
        /\ WF_vars(NotifyOwner(p))
        /\ WF_vars(LookupToUser(p))
        /\ WF_vars(LookupFromUser(p))
        /\ WF_vars(NotifySubscription(p))
    /\ WF_vars(ReportPublish)

\* pubsub.NewSubscribe may fail: the steps above, and the select entered with a
\* nil notify
NextBusFails ==
    \/ Next
    \/ \E p \in Procs : WaitNil(p)

InitBusFails ==
    /\ InitCalls
    /\ notifierDown = FALSE /\ busFails = TRUE /\ storeFails = FALSE
    /\ daoPrice = 10000

SpecBusFails == InitBusFails /\ [][NextBusFails]_vars

\* the store may fail the lookups made after the receive
InitStoreFails ==
    /\ InitCalls
    /\ notifierDown = FALSE /\ busFails = FALSE /\ storeFails = TRUE
    /\ daoPrice = 10000

SpecStoreFails == InitStoreFails /\ [][Next]_vars

SpecFair == Init /\ [][Next]_vars /\ Fairness

\* ------------------------------------------------------------------ claims
Callers(a) == {p \in Procs : address[p] = a}
Returned(p) == pc[p] \in {"done", "panicked"}
Delivered(p) == got[p] # NoStatus

\* C1: once every SubDao call for a (subscriber, community) pair has returned,
\* none of them stopped by a failing order lookup or a failing payment
\* initiation, the pair has exactly one persisted order and the Payment
\* Initiator was invoked exactly once for it.
C1_ExactlyOneOrderAndPayment ==
    \A a \in Addresses :
        ( /\ Callers(a) # {}
          /\ \A p \in Callers(a) : Returned(p) /\ err[p] \notin {"lookup", "pay"} )
        => /\ Cardinality(FindOne(a, TheDao)) = 1
           /\ PayCalls(a) = 1

\* C2 (result): two calls that both received a status from the bus for the
\* same order hold the same status and the same transaction id.
C2_SameResult ==
    \A p, q \in Procs :
        (Delivered(p) /\ Delivered(q) /\ oid[p] = oid[q])
        => (status[p] = status[q] /\ txID[p] = txID[q])

\* C2 (wake-up): one publish of the Completion Reporter puts its status into
\* the channel of every call blocked in the wait phase on that order.
C2_PublishWakes ==
    (rep.pc = "publish" /\ rep'.pc = "idle")
    => \A p \in Procs :
          (pc[p] = "wait" /\ oid[p] = rep.oid) => notify'[p].ch = rep.status

\* C2: completion wakes all waiters: a single ReportCompletion unblocks every
\* call waiting on the order, the creating and the resumed one alike, and they
\* return the same status and the same transaction id.
C2_CompletionWakesAll == [](C2_SameResult) /\ [][C2_PublishWakes]_vars

\* a creating and a resumed call have both returned what the bus delivered for
\* one order
C2_Witness ==
    \E p, q \in Procs :
        /\ path[p] = "create" /\ path[q] = "resume"
        /\ oid[p] = oid[q]
        /\ Delivered(p) /\ Delivered(q)
        /\ pc[p] = "done" /\ pc[q] = "done"

\* C3: terminal states are final: no step changes the stored status of an
\* order that is Success, Failed or Cancelled.
C3_TerminalIsFinal ==
    [][\A o \in OrderIds :
          orders[o].status \in Terminal => orders'[o].status = orders[o].status]_vars

\* the step of call p in which its lookup returns order o
FoundStep(p, o) ==
    /\ pc[p] = "idle"
    /\ found'[p] = o
    /\ found[p] = NoOrder
    /\ o \in OrderIds

\* C4: idempotent short-circuit: a call whose lookup returns an order in a
\* terminal status returns in that step, with no error, the order's stored
\* transaction id and status; it registered no bus subscription, no payment
\* was initiated and no order was written.
C4_ShortCircuit ==
    [][\A p \in Procs : \A o \in OrderIds :
          (FoundStep(p, o) /\ orders[o].status \in Terminal)
          => /\ pc'[p] = "done"
             /\ err'[p] = ""
             /\ txID'[p] = orders[o].txID
             /\ status'[p] = orders[o].status
             /\ notify'[p] = NoNotify
             /\ regs'[p] = 0
             /\ payLog' = payLog
             /\ orders' = orders]_vars

\* a call returned a terminal order's stored values
C4_Witness ==
    \E p \in Procs :
        /\ pc[p] = "done" /\ path[p] = "short"
        /\ status[p] \in Terminal /\ txID[p] # NoTx

\* C5: resume: a call whose lookup returns a Submitted order goes on to register
\* a bus subscription under that order's id and then waits; neither step writes
\* an order or initiates a payment.
C5_Resume ==
    [][\A p \in Procs :
          /\ \A o \in OrderIds :
                (FoundStep(p, o) /\ orders[o].status = DaoSubscribeSubmit)
                => /\ pc'[p] = "resub"
                   /\ oid'[p] = o
                   /\ payLog' = payLog
                   /\ orders' = orders
          /\ (pc[p] = "resub" /\ pc'[p] # "resub")
             => /\ pc'[p] = "wait"
                /\ notify'[p].reg
                /\ notify'[p].key = oid[p]
                /\ notify'[p].ch = NoStatus
                /\ regs'[p] = 1
                /\ payLog' = payLog
                /\ orders' = orders]_vars

\* a resumed call waits on the order it found
C5_Witness ==
    \E p \in Procs :
        /\ pc[p] = "wait" /\ path[p] = "resume"
        /\ notify[p].reg /\ notify[p].key = found[p]

\* C6: cancellation safety: a call that leaves the wait phase because its
\* cancellation signal fired returns the cancellation error, with the txID and
\* status it had, and the step writes nothing to the Order Store.
C6_CancelWritesNothing ==
    [][\A p \in Procs :
          (pc[p] = "wait" /\ pc'[p] # "wait" /\ got'[p] = NoStatus)
          => /\ pc'[p] = "done"
             /\ err'[p] = "cancelled"
             /\ txID'[p] = txID[p]
             /\ status'[p] = status[p]
             /\ orders' = orders]_vars

\* a call cancelled in the wait phase has returned and its order is still
\* Submitted with its transaction id
C6_Witness ==
    \E p \in Procs :
        /\ pc[p] = "done" /\ err[p] = "cancelled"
        /\ orders[oid[p]].status = DaoSubscribeSubmit
        /\ orders[oid[p]].txID = txID[p]
        /\ txID[p] # NoTx

\* the order a returned call was about: the one it created or resumed, or the
\* one its lookup returned
OrderOf(p) == IF oid[p] # NoOrder THEN oid[p] ELSE found[p]

\* C7: a call that returns with no error returns a terminal status and its
\* order's transaction id.
C7_FinalOutcome ==
    \A p \in Procs :
        (pc[p] = "done" /\ err[p] = "")
        => /\ status[p] \in Terminal
           /\ txID[p] = orders[OrderOf(p)].txID

\* C8: when every User Notifier call fails and the store fails no lookup, a
\* call that received a status from the bus returns that status and the
\* transaction id with no error.
C8_NotifierNonFatal ==
    \A p \in Procs :
        (notifierDown /\ Delivered(p) /\ ~idFail[p] /\ pc[p] = "done")
        => /\ err[p] = ""
           /\ status[p] = got[p]
           /\ txID[p] = TxOf(oid[p])

\* C9: a call that received a status from the bus and then had the store fail
\* an identity lookup returns the delivered status and the transaction id with no
\* error.
C9_IdentityNonFatal ==
    \A p \in Procs :
        (Delivered(p) /\ idFail[p] /\ pc[p] = "done")
        => /\ err[p] = ""
           /\ status[p] = got[p]
           /\ txID[p] = TxOf(oid[p])

\* C10: transaction id immutability: no step changes or clears a stored
\* transaction id that is not empty.
C10_TxIDImmutable ==
    [][\A o \in OrderIds :
          orders[o].txID # NoTx => orders'[o].txID = orders[o].txID]_vars

\* the creating call's attach write came after the Completion Reporter had
\* stored the transaction id
C10_Witness ==
    \E p \in Procs :
        /\ path[p] = "create" /\ pc[p] = "wait"
        /\ final[oid[p]] # NoStatus
        /\ orders[oid[p]].status = DaoSubscribeSubmit
        /\ orders[oid[p]].txID = txID[p]

\* C11: payment amount: every amount handed to the Payment Initiator on the
\* create path is the community's configured price divided by 1000, the value
\* the creating call computed as its price, for each configured price.
C11_AmountIsPriceOver1000 ==
    \A p \in Procs : \A i \in 1..Len(payLog) :
        (path[p] = "create" /\ payLog[i].oid = oid[p])
        => payLog[i].amount = price[p]

\* C12 (state): a call stopped by a failed payment initiation has returned
\* without receiving anything, and its order is Created with no transaction id.
C12_OrderStaysCreated ==
    \A p \in Procs :
        err[p] = "pay"
        => /\ pc[p] = "done"
           /\ got[p] = NoStatus
           /\ orders[oid[p]].status = DaoSubscribeCreated
           /\ orders[oid[p]].txID = NoTx

\* C12 (step): the step in which the Payment Initiator fails returns the call
\* with that error and writes no order.
C12_FailedPayReturns ==
    \A p \in Procs :
        ( /\ pc[p] = "pay"
          /\ Len(payLog') > Len(payLog)
          /\ payLog'[Len(payLog')].oid = oid[p]
          /\ ~payLog'[Len(payLog')].ok )
        => /\ pc'[p] = "done"
           /\ err'[p] = "pay"
           /\ orders' = orders

\* C12: payment initiation failure: the call returns the initiator's error
\* without entering the wait phase and without writing Submitted or a
\* transaction id; the order stays Created with an empty transaction id.
C12_PayFailure == [](C12_OrderStaysCreated) /\ [][C12_FailedPayReturns]_vars

\* a call returned the initiator's error and a later call found its order,
\* still Created
C12_Witness ==
    \E p, q \in Procs :
        /\ pc[p] = "done" /\ err[p] = "pay"
        /\ pc[q] = "done" /\ found[q] = oid[p]
        /\ status[q] = DaoSubscribeCreated

\* a terminal status of order o has been persisted and published, and no
\* report is in flight
Completed(o) == o \in OrderIds /\ final[o] # NoStatus /\ rep.pc = "idle"

\* call p has ended, cancelled or with the terminal status reported for order o
EndedWith(p, o) ==
    /\ o \in OrderIds
    /\ Returned(p)
    /\ (err[p] = "cancelled" \/ status[p] = final[o])

\* C13: no lost wake-up: once a terminal status of an order has been persisted
\* and published, every call on that order, registered before the publish or
\* after it, eventually ends with that status unless it is cancelled.
C13_NoLostWakeUp ==
    \A p \in Procs :
        (pc[p] \in {"attach", "resub", "wait"} /\ Completed(oid[p]))
        ~> EndedWith(p, oid[p])

\* C14 (registration): when the Payment Initiator is invoked for a new order,
\* the creating call holds a listener registered under the order's id.
C14_RegisteredAtPay ==
    \A p \in Procs :
        ( /\ pc[p] = "pay"
          /\ Len(payLog') > Len(payLog)
          /\ payLog'[Len(payLog')].oid = oid[p] )
        => (notify[p].reg /\ notify[p].key = oid[p])

\* C14 (delivery): every publish for the order made after the initiation finds
\* its status in the channel of the creating call, as long as that call has
\* not returned.
C14_PublishReachesCreator ==
    (rep.pc = "publish" /\ rep'.pc = "idle")
    => \A p \in Procs :
          (path[p] = "create" /\ oid[p] = rep.oid /\ pc[p] \in {"attach", "wait"})
          => notify'[p].ch = rep.status

\* C14: registration precedes initiation: the creating call is registered on
\* the bus under the new order's id when the Payment Initiator is invoked, so a
\* publish for the order after the initiation is delivered to it.
C14_RegistrationPrecedesInitiation ==
    [][C14_RegisteredAtPay /\ C14_PublishReachesCreator]_vars

\* a completion was published before the creating call's attach write and
\* sits in the call's channel
C14_Witness ==
    \E p \in Procs :
        /\ path[p] = "create" /\ pc[p] = "attach"
        /\ notify[p].ch # NoStatus
        /\ notify[p].ch = final[oid[p]]

\* C15: write-before-publish is observable: from the moment a call has
\* received status s from the bus for an order, the stored status of that order
\* is s.
C15_StoredIsReceived ==
    \A p \in Procs :
        Delivered(p) => orders[oid[p]].status = got[p]

\* C16: subscription release: a call that has ended, on whichever path, holds
\* no registered listener, so when no call is in flight the Notification Bus
\* has no listener registered under any order id.
C16_Released ==
    /\ \A p \in Procs : Returned(p) => ~notify[p].reg
    /\ (\A p \in Procs : pc[p] \in {"idle", "done", "panicked"})
       => \A o \in OrderIds : Listeners(o) = {}

\* two calls that had registered have returned, one after a delivery and one
\* after a cancellation, and no listener is left
C16_Witness ==
    \E p, q \in Procs :
        /\ pc[p] = "done" /\ regs[p] = 1 /\ Delivered(p)
        /\ pc[q] = "done" /\ regs[q] = 1 /\ err[q] = "cancelled"
        /\ \A o \in OrderIds : Listeners(o) = {}

\* C17: notification count: a call that returned after receiving a status
\* from the bus invoked the User Notifier exactly twice; a call that returned
\* otherwise (stored order, cancellation, error) invoked it zero times.
C17_NotifyCount ==
    \A p \in Procs :
        pc[p] = "done" => nNotify[p] = IF Delivered(p) THEN 2 ELSE 0

\* C18: the notifications announcing a successful payment are dispatched only
\* when the delivered status is Success: a call that received Failed or
\* Cancelled has invoked the User Notifier zero times.
C18_OnlyOnSuccess ==
    \A p \in Procs :
        (Delivered(p) /\ got[p] # DaoSubscribeSuccess) => nNotify[p] = 0

\* C19: a call in the wait phase holds a listener registered under its order
\* id, also when registering can fail.
C19_WaitsRegistered ==
    \A p \in Procs :
        pc[p] = "wait"
        => /\ notify[p] # NoNotify
           /\ notify[p].reg
           /\ notify[p].key = oid[p]

====
